---------------------------- MODULE Spec2Model ----------------------------
(***************************************************************************)
(* Model of the order attribute-group editor                               *)
(* (src/src/app/admin/orders/[page]/attribute_group.tsx, OrderAttribute).  *)
(*                                                                         *)
(* The React component is modelled as a state machine.  One action is one  *)
(* event handler (or one asynchronous continuation) together with the      *)
(* re-render and the effects React runs after it: the derived value        *)
(* hasChanges is recomputed and the active-group effect is applied at the  *)
(* end of every action.                                                    *)
(*                                                                         *)
(* JavaScript values are TLA+ values: arrays are sequences, objects are    *)
(* records, null is the string NULL.  A field's dynamically typed `value`  *)
(* is wrapped in a one-field record naming its runtime type:               *)
(*   [str |-> s]   a string                                               *)
(*   [obj |-> o]   an object {id, title, value}                           *)
(*   [arr |-> a]   an array of such objects                               *)
(* Indexes passed to handlers are 0-based as in the source.                *)
(***************************************************************************)
EXTENDS Integers, Sequences, FiniteSets, TLC

VARIABLES
    data,            \* props.data: [id, data] (the host order row)
    mounted,         \* FALSE until the effects of the first render have run
    groupSelected,   \* useState<AttributeGroup[]>: the current snapshot
    savedGroupData,  \* useState<AttributeGroup[]>: the baseline
    activeGroupId,   \* useState<string | null>
    hasChanges,      \* useMemo: the dirty flag of the last render
    open,            \* useState: <<dialogType, dialogData>>
    search,          \* useState: the visible search result list
    loading,         \* useState: the search dialog's loading flag
    saves,           \* updateRecord calls in flight, in the order issued
    searches,        \* searchAttributeMeta calls in the order issued
    db,              \* the order row's `data` column on the server
    generated,       \* number of ids generateId has produced
    toasts,          \* notices raised by the last action
    lastOp,          \* the handler the last action ran, and what it decided
    budget           \* user events the model still follows

vars == <<data, mounted, groupSelected, savedGroupData, activeGroupId,
          hasChanges, open, search, loading, saves, searches, db, generated, toasts,
          lastOp, budget>>

-----------------------------------------------------------------------------
(* Bounds of the model. *)

\* the number of user events (handler calls) followed after the first render
MaxEvents == 3
\* the same for the end-to-end scenario
ScenarioEvents == 7
\* the same for the checkbox operations on one field
CheckboxEvents == 4
\* the same for the search dialog
SearchEvents == 3
\* the same for edits and saves that overlap
OverlapEvents == 4
\* the save requests right after the load
LoadEvents == 1

-----------------------------------------------------------------------------
(* JavaScript basics. *)

NULL == "null"

Str(s) == [str |-> s]
Obj(o) == [obj |-> o]
Arr(a) == [arr |-> a]

\* Array.isArray(field.value)
IsArrayValue(v) == "arr" \in DOMAIN v

\* !x for a string-or-null x
Falsy(x) == x = NULL \/ x = ""

\* Array.prototype.findIndex: the 1-based position of the first element with
\* the given id, 0 when there is none (-1 in the source).
FindIndexById(seq, id) ==
    IF \E i \in 1..Len(seq) : seq[i].id = id
    THEN CHOOSE i \in 1..Len(seq) :
            /\ seq[i].id = id
            /\ \A j \in 1..(i - 1) : seq[j].id # id
    ELSE 0

\* SpliceOut removing the last element whatever the index
SpliceOutLast(seq, at) ==
    IF at + 1 \in 1..Len(seq) THEN SubSeq(seq, 1, Len(seq) - 1) ELSE seq

\* Array.prototype.splice(at, 1) with a 0-based index `at`
SpliceOut(seq, at) ==
    IF at + 1 \in 1..Len(seq)
    THEN SubSeq(seq, 1, at) \o SubSeq(seq, at + 2, Len(seq))
    ELSE seq

\* SpliceIn inserting at the end whatever the index
SpliceInAtEnd(seq, at, x) == Append(seq, x)

\* Array.prototype.splice(at, 0, x) with a 0-based index `at`
SpliceIn(seq, at, x) ==
    IF at >= Len(seq)
    THEN Append(seq, x)
    ELSE SubSeq(seq, 1, at) \o <<x>> \o SubSeq(seq, at + 1, Len(seq))

\* Array.prototype.filter(attr => attr.id !== id)
RECURSIVE FilterOutId(_, _)
FilterOutId(seq, id) ==
    IF seq = <<>> THEN <<>>
    ELSE IF Head(seq).id = id THEN FilterOutId(Tail(seq), id)
    ELSE <<Head(seq)>> \o FilterOutId(Tail(seq), id)

\* String.prototype.trim over the blank character
RECURSIVE TrimStart(_)
TrimStart(s) ==
    IF Len(s) > 0 /\ Head(s) = " " THEN TrimStart(SubSeq(s, 2, Len(s))) ELSE s

RECURSIVE TrimEnd(_)
TrimEnd(s) ==
    IF Len(s) > 0 /\ SubSeq(s, Len(s), Len(s)) = " "
    THEN TrimEnd(SubSeq(s, 1, Len(s) - 1))
    ELSE s

Trim(s) == TrimEnd(TrimStart(s))

\* generateId giving the same id every time
generateIdRepeated(n) == "group_1"

\* generateId(): the n-th id produced; ids are never repeated
generateId(n) == "group_" \o ToString(n)

-----------------------------------------------------------------------------
(* JSON.stringify.  Keys are written in the order the source creates them:  *)
(* group {id,title,attributes}, instance {title,id,children}, field and     *)
(* bound value {id,title,value}.                                            *)

Quote(s) == "\"" \o s \o "\""

RECURSIVE JoinComma(_)
JoinComma(parts) ==
    IF parts = <<>> THEN ""
    ELSE IF Len(parts) = 1 THEN parts[1]
    ELSE parts[1] \o "," \o JoinComma(Tail(parts))

StringifyArray(parts) == "[" \o JoinComma(parts) \o "]"

StringifyMeta(m) ==
    "{\"id\":" \o Quote(m.id) \o ",\"title\":" \o Quote(m.title)
        \o ",\"value\":" \o Quote(m.value) \o "}"

StringifyValue(v) ==
    IF "str" \in DOMAIN v THEN Quote(v.str)
    ELSE IF "obj" \in DOMAIN v THEN StringifyMeta(v.obj)
    ELSE StringifyArray([i \in 1..Len(v.arr) |-> StringifyMeta(v.arr[i])])

StringifyField(f) ==
    "{\"id\":" \o Quote(f.id) \o ",\"title\":" \o Quote(f.title)
        \o ",\"value\":" \o StringifyValue(f.value) \o "}"

StringifyRow(row) == StringifyArray([i \in 1..Len(row) |-> StringifyField(row[i])])

StringifyInstance(a) ==
    "{\"title\":" \o Quote(a.title) \o ",\"id\":" \o Quote(a.id)
        \o ",\"children\":"
        \o StringifyArray([i \in 1..Len(a.children) |-> StringifyRow(a.children[i])])
        \o "}"

StringifyInstances(as) == StringifyArray([i \in 1..Len(as) |-> StringifyInstance(as[i])])

StringifyGroup(g) ==
    "{\"id\":" \o Quote(g.id) \o ",\"title\":" \o Quote(g.title)
        \o ",\"attributes\":" \o StringifyInstances(g.attributes) \o "}"

\* JSON.stringify of an AttributeGroup[]
JSON_stringify(groups) ==
    StringifyArray([i \in 1..Len(groups) |-> StringifyGroup(groups[i])])

-----------------------------------------------------------------------------
(* The template catalog and the inputs of the handlers. *)

\* state.attributeState.data: one template mapped to orders, with a text, a
\* checkbox and a select field, and one mapped to users
memoriez ==
    << [id |-> "size-template", title |-> "Size", mapto |-> "order",
        children |-> << [id |-> "size", title |-> "Size", type |-> "text"],
                        [id |-> "tags", title |-> "Tags", type |-> "checkbox"],
                        [id |-> "color", title |-> "Color", type |-> "select"] >>],
       [id |-> "user-template", title |-> "Profile", mapto |-> "user",
        children |-> << [id |-> "nick", title |-> "Nick", type |-> "text"] >>] >>

\* memoriez.filter(item => item?.mapto === "order")
RECURSIVE FilterMapto(_, _)
FilterMapto(seq, tag) ==
    IF seq = <<>> THEN <<>>
    ELSE IF Head(seq).mapto = tag THEN <<Head(seq)>> \o FilterMapto(Tail(seq), tag)
    ELSE FilterMapto(Tail(seq), tag)

\* atts without the filter
attsUnfiltered == memoriez

atts == FilterMapto(memoriez, "order")

\* the host order's id
OrderIds == {"order-1"}

\* what the user types as a group name: blank, or a name with blanks around it
GroupNames == {"  ", " Shipping "}

\* what prompt() returns on a double click on a tab
NewNames == {"Shipping "}

\* what the user types into a text field
TextValues == {"", "XL"}

\* selectedMetaItem: {id, title: key, value} of a search result
MetaItems ==
    { [id |-> "m1", title |-> "red", value |-> "#ff0000"],
      [id |-> "m2", title |-> "docs", value |-> "https://x.io/a"] }

\* a row as the source creates it for size-template, with "XL" typed in
SampleRow ==
    << [id |-> "size", title |-> "Size", value |-> Str("XL")],
       [id |-> "tags", title |-> "Tags", value |-> Arr(<<>>)],
       [id |-> "color", title |-> "Color", value |-> Str("")] >>

\* a persisted legacy document: a flat AttributeInstance[]
LegacyInstances ==
    << [title |-> "Size", id |-> "size-template", children |-> <<SampleRow>>] >>

\* a second legacy document: two instances without rows
LegacyPair ==
    << [title |-> "Size", id |-> "size-template", children |-> <<>>],
       [title |-> "Profile", id |-> "user-template", children |-> <<>>] >>

\* a persisted current-shape document; its second instance is bound to a
\* template the order catalog does not hold
StoredGroups ==
    << [id |-> "group_a", title |-> "Shipping",
        attributes |-> << [title |-> "Size", id |-> "size-template",
                           children |-> <<SampleRow>>],
                          [title |-> "Profile", id |-> "user-template",
                           children |-> <<>>] >>] >>

\* an instance with two rows, the second holding a bound checkbox entry
TwoRowInstances ==
    << [title |-> "Size", id |-> "size-template",
        children |-> << SampleRow,
                        << [id |-> "size", title |-> "Size", value |-> Str("")],
                           [id |-> "tags", title |-> "Tags",
                            value |-> Arr(<< [id |-> "m1", title |-> "red",
                                              value |-> "#ff0000"] >>)],
                           [id |-> "color", title |-> "Color", value |-> Str("")] >> >>] >>

\* groups as the editor builds them: a generated or stored id, a title, and
\* the instances of one of the sample documents
SampleGroups ==
    [id : {"group_1", "group_a"},
     title : {"Default Group"},
     attributes : {<<>>, LegacyInstances, LegacyPair, TwoRowInstances}]

\* the items a search offers for the checkbox field: MetaItems and one more
CheckboxItems ==
    MetaItems \cup { [id |-> "m3", title |-> "note", value |-> "plain"] }

\* a stored document whose checkbox field holds three bound entries
CheckboxGroups ==
    << [id |-> "group_a", title |-> "Shipping",
        attributes |->
            << [title |-> "Size", id |-> "size-template",
                children |->
                    << << [id |-> "size", title |-> "Size", value |-> Str("XL")],
                          [id |-> "tags", title |-> "Tags",
                           value |-> Arr(<< [id |-> "m1", title |-> "red",
                                             value |-> "#ff0000"],
                                            [id |-> "m2", title |-> "docs",
                                             value |-> "https://x.io/a"],
                                            [id |-> "m3", title |-> "note",
                                             value |-> "plain"] >>)],
                          [id |-> "color", title |-> "Color",
                           value |-> Str("")] >> >>] >>] >>

\* current-shape documents: one group, or two groups with different ids, and
\* the document with the three bound entries
Documents ==
    {<<g>> : g \in SampleGroups}
        \cup {<<pair[1], pair[2]>> :
                pair \in {q \in SampleGroups \X SampleGroups : q[1].id # q[2].id}}
        \cup {CheckboxGroups}

\* the stored document after edits of the text field of its first row and
\* after rows were added to its first instance
EditedDocuments ==
    {[StoredGroups EXCEPT ![1].attributes[1].children =
        <<[SampleRow EXCEPT ![1].value = Str(t)]>>
            \o [i \in 1..n |-> [SampleRow EXCEPT ![1].value = Str("")]]] :
        t \in TextValues, n \in 0..OverlapEvents}

-----------------------------------------------------------------------------
(* JSON.parse.  The JSON texts of the model are the serializations of the   *)
(* values of JsonValues and of the documents of Documents and of            *)
(* EditedDocuments; every other text is a SyntaxError.                      *)

\* JSON.stringify of a parsed value: an array (of groups or of instances),
\* a number, or an object without keys
StringifyAny(j) ==
    IF "arr" \in DOMAIN j
    THEN IF j.arr = <<>> THEN "[]"
         ELSE IF "attributes" \in DOMAIN j.arr[1] THEN JSON_stringify(j.arr)
         ELSE StringifyInstances(j.arr)
    ELSE IF "num" \in DOMAIN j THEN ToString(j.num)
    ELSE "{}"

JsonValues ==
    { Arr(<<>>), Arr(LegacyInstances), Arr(LegacyPair), Arr(StoredGroups),
      [num |-> 7], Obj(<<>>) }

\* JSON.parse(text): [ok |-> TRUE, value |-> v], or [ok |-> FALSE] when it throws
JSON_parse(text) ==
    LET values == JsonValues \cup {Arr(d) : d \in Documents \cup EditedDocuments} IN
    IF \E j \in values : StringifyAny(j) = text
    THEN [ok |-> TRUE, value |-> CHOOSE j \in values : StringifyAny(j) = text]
    ELSE [ok |-> FALSE]

\* the array values a checkbox field of the model can hold
CheckboxLists ==
    {<<>>} \cup {<<m>> : m \in MetaItems}
           \cup {<<p[1], p[2]>> : p \in MetaItems \X MetaItems}

\* the rows of a size-template instance
TemplateRows ==
    { << [id |-> "size", title |-> "Size", value |-> Str(t)],
         [id |-> "tags", title |-> "Tags", value |-> Arr(l)],
         [id |-> "color", title |-> "Color", value |-> c] >> :
            t \in TextValues, l \in CheckboxLists,
            c \in {Str("")} \cup {Obj(m) : m \in MetaItems} }

\* JSON.parse(JSON.stringify(row)): the row the text of `row` parses to
JSON_copy(row) ==
    CHOOSE r \in TemplateRows : StringifyRow(r) = StringifyRow(row)

\* the raw `data` column: absent, empty, malformed, not an array, an empty
\* array, a legacy flat array, a current-shape document
RawInputs ==
    { NULL, "", "[{\"id\":", "7", "{}" } \cup {StringifyAny(j) : j \in JsonValues}

-----------------------------------------------------------------------------
(* Effects and derived state. *)

\* DataShape without the length test: an empty array is migrated
DataShapeNoLength(parsedData) ==
    IF "arr" \notin DOMAIN parsedData THEN "none"
    ELSE IF Len(parsedData.arr) > 0 /\ "attributes" \in DOMAIN parsedData.arr[1]
    THEN "new"
    ELSE "old"

\* the branch Effect 1 takes on a parsed value: the new structure, the old
\* structure to migrate, or neither
DataShape(parsedData) ==
    IF /\ "arr" \in DOMAIN parsedData
       /\ Len(parsedData.arr) > 0
       /\ "attributes" \in DOMAIN parsedData.arr[1]
    THEN "new"
    ELSE IF /\ "arr" \in DOMAIN parsedData
            /\ Len(parsedData.arr) > 0
            /\ "attributes" \notin DOMAIN parsedData.arr[1]
    THEN "old"
    ELSE "none"

\* NewStructure giving the first group a new id
NewStructureReidentified(parsedData) ==
    [parsedData.arr EXCEPT ![1].id = "group_0"]

\* the new structure is used as it is: parsedGroups = parsedData
NewStructure(parsedData) == parsedData.arr

\* MigrateLegacy starting the default group without the stored instances
MigrateLegacyEmpty(parsedData, n) ==
    << [id |-> generateId(n + 1), title |-> "Default Group", attributes |-> <<>>] >>

\* the migration of the old structure: parsedGroups = [defaultGroup]
MigrateLegacy(parsedData, n) ==
    << [id |-> generateId(n + 1),
        title |-> "Default Group",
        attributes |-> parsedData.arr] >>

\* Effect 1: parse data.data into the groups both states are set to.
\* The result names the groups, the notices raised and whether an id was
\* generated.
ParseData(raw, n) ==
    IF Falsy(raw) THEN [groups |-> <<>>, toasts |-> {}, ids |-> 0]
    ELSE LET parsed == JSON_parse(raw) IN
         IF ~parsed.ok
         THEN [groups |-> <<>>,
               toasts |-> {"error: Failed to load order attributes."}, ids |-> 0]
         ELSE LET parsedData == parsed.value IN
              IF DataShape(parsedData) = "new"
              THEN [groups |-> NewStructure(parsedData), toasts |-> {}, ids |-> 0]
              ELSE IF DataShape(parsedData) = "old"
              THEN [groups |-> MigrateLegacy(parsedData, n), toasts |-> {}, ids |-> 1]
              ELSE [groups |-> <<>>, toasts |-> {}, ids |-> 0]

\* Effect 2: the active group id after the effect has run on (groups, active)
ActiveGroupEffect(groups, active) ==
    IF Len(groups) > 0 /\ Falsy(active) THEN groups[1].id
    ELSE IF Len(groups) = 0 /\ ~Falsy(active) THEN NULL
    ELSE active

\* hasChanges comparing the number of groups only
HasChangesByCount(current, saved) == Len(current) # Len(saved)

\* useMemo hasChanges
HasChanges(current, saved) == JSON_stringify(current) # JSON_stringify(saved)

\* the re-render after a handler: the states it set, then the effect and
\* the derived dirty flag
Render(groups, saved, active) ==
    /\ groupSelected' = groups
    /\ savedGroupData' = saved
    /\ activeGroupId' = ActiveGroupEffect(groups, active)
    /\ hasChanges' = HasChanges(groups, saved)

-----------------------------------------------------------------------------
(* The producers the handlers pass to setGroupSelected(produce(...)). *)

\* draft.find(g => g.id === activeGroupId), then
\* group.attributes.find(attr => attr.id === attributeId): the positions of
\* the group and of the instance, a = 0 when either is missing
FindAttribute(draft, active, attributeId) ==
    LET g == FindIndexById(draft, active) IN
    [g |-> g,
     a |-> IF g = 0 THEN 0 ELSE FindIndexById(draft[g].attributes, attributeId)]

\* attribute.children[rowIndex] && attribute.children[rowIndex][fieldIndex]
HasField(attribute, rowIndex, fieldIndex) ==
    /\ rowIndex + 1 \in 1..Len(attribute.children)
    /\ fieldIndex + 1 \in 1..Len(attribute.children[rowIndex + 1])

\* AddGroupDraft putting the new group first
AddGroupDraftFirst(draft, newGroup) == <<newGroup>> \o draft

AddGroupDraft(draft, newGroup) == Append(draft, newGroup)

RenameGroupDraft(draft, groupId, newName) ==
    LET g == FindIndexById(draft, groupId) IN
    IF g = 0 THEN draft ELSE [draft EXCEPT ![g].title = Trim(newName)]

DeleteGroupDraft(draft, groupId) ==
    LET index == FindIndexById(draft, groupId) IN
    IF index # 0 THEN SpliceOut(draft, index - 1) ELSE draft

\* SelectAttributeDraft without the test for an instance of the same id
SelectAttributeDraftUnchecked(draft, active, newAttributeInstance) ==
    LET g == FindIndexById(draft, active) IN
    IF g # 0
    THEN [draft EXCEPT ![g].attributes = Append(@, newAttributeInstance)]
    ELSE draft

SelectAttributeDraft(draft, active, newAttributeInstance) ==
    LET g == FindIndexById(draft, active) IN
    IF g # 0 /\ FindIndexById(draft[g].attributes, newAttributeInstance.id) = 0
    THEN [draft EXCEPT ![g].attributes = Append(@, newAttributeInstance)]
    ELSE draft

SelectAttributeToasts(draft, active, newAttributeInstance) ==
    LET g == FindIndexById(draft, active) IN
    IF g # 0 /\ FindIndexById(draft[g].attributes, newAttributeInstance.id) # 0
    THEN {"info: Attribute already added to this group."}
    ELSE {}

\* NewRow seeding every field with ""
NewRowAllText(attributeDefinition) ==
    [i \in 1..Len(attributeDefinition.children) |->
        [id |-> attributeDefinition.children[i].id,
         title |-> attributeDefinition.children[i].title,
         value |-> Str("")]]

\* attributeDefinition.children.map(child => ({id, title, value}))
NewRow(attributeDefinition) ==
    [i \in 1..Len(attributeDefinition.children) |->
        [id |-> attributeDefinition.children[i].id,
         title |-> attributeDefinition.children[i].title,
         value |-> IF attributeDefinition.children[i].type = "checkbox"
                   THEN Arr(<<>>) ELSE Str("")]]

AddRowDraft(draft, active, attributeId, newRow) ==
    LET at == FindAttribute(draft, active, attributeId) IN
    IF at.a = 0 THEN draft
    ELSE [draft EXCEPT ![at.g].attributes[at.a].children = Append(@, newRow)]

\* rowToDuplicate is JSON.parse(JSON.stringify(row)), spliced in below row
DuplicateRowDraft(draft, active, attributeId, rowIndex) ==
    LET at == FindAttribute(draft, active, attributeId) IN
    IF at.a = 0 THEN draft
    ELSE IF rowIndex + 1 \in 1..Len(draft[at.g].attributes[at.a].children)
    THEN [draft EXCEPT ![at.g].attributes[at.a].children =
                SpliceIn(@, rowIndex + 1, JSON_copy(@[rowIndex + 1]))]
    ELSE draft

DeleteRowDraft(draft, active, attributeId, rowIndex) ==
    LET at == FindAttribute(draft, active, attributeId) IN
    IF at.a = 0 THEN draft
    ELSE [draft EXCEPT ![at.g].attributes[at.a].children = SpliceOut(@, rowIndex)]

DeleteInstanceDraft(draft, active, attributeId) ==
    LET g == FindIndexById(draft, active) IN
    IF g = 0 THEN draft
    ELSE [draft EXCEPT ![g].attributes = FilterOutId(@, attributeId)]

\* UpdateFieldValueDraft giving the new value to every field of the row
UpdateFieldValueDraftWholeRow(draft, active, attributeId, rowIndex, fieldIndex, newValue) ==
    LET at == FindAttribute(draft, active, attributeId) IN
    IF at.a # 0 /\ HasField(draft[at.g].attributes[at.a], rowIndex, fieldIndex)
    THEN [draft EXCEPT
            ![at.g].attributes[at.a].children[rowIndex + 1] =
                [i \in 1..Len(@) |-> [@[i] EXCEPT !.value = newValue]]]
    ELSE draft

UpdateFieldValueDraft(draft, active, attributeId, rowIndex, fieldIndex, newValue) ==
    LET at == FindAttribute(draft, active, attributeId) IN
    IF at.a # 0 /\ HasField(draft[at.g].attributes[at.a], rowIndex, fieldIndex)
    THEN [draft EXCEPT
            ![at.g].attributes[at.a].children[rowIndex + 1][fieldIndex + 1].value =
                newValue]
    ELSE draft

\* CheckboxValue pushing the item without looking for its id
CheckboxValueUnchecked(value, selectedMetaItem, add) ==
    LET array == IF IsArrayValue(value) THEN value.arr ELSE <<>>
        existingIndex == FindIndexById(array, selectedMetaItem.id)
    IN  IF add THEN Append(array, selectedMetaItem)
        ELSE IF existingIndex # 0 THEN SpliceOut(array, existingIndex - 1) ELSE array

\* the field's array after the add or the removal of selectedMetaItem
CheckboxValue(value, selectedMetaItem, add) ==
    LET array == IF IsArrayValue(value) THEN value.arr ELSE <<>>
        existingIndex == FindIndexById(array, selectedMetaItem.id)
    IN  IF add
        THEN IF existingIndex = 0 THEN Append(array, selectedMetaItem) ELSE array
        ELSE IF existingIndex # 0 THEN SpliceOut(array, existingIndex - 1) ELSE array

UpdateCheckboxDraft(draft, active, attributeId, rowIndex, fieldIndex, selectedMetaItem, add) ==
    LET at == FindAttribute(draft, active, attributeId) IN
    IF at.a # 0 /\ HasField(draft[at.g].attributes[at.a], rowIndex, fieldIndex)
    THEN [draft EXCEPT
            ![at.g].attributes[at.a].children[rowIndex + 1][fieldIndex + 1].value =
                Arr(CheckboxValue(@, selectedMetaItem, add))]
    ELSE draft

UpdateCheckboxToasts(draft, active, attributeId, rowIndex, fieldIndex, selectedMetaItem, add) ==
    LET at == FindAttribute(draft, active, attributeId) IN
    IF at.a = 0 \/ ~HasField(draft[at.g].attributes[at.a], rowIndex, fieldIndex) THEN {}
    ELSE LET value == draft[at.g].attributes[at.a].children[rowIndex + 1][fieldIndex + 1].value
             array == IF IsArrayValue(value) THEN value.arr ELSE <<>>
             existingIndex == FindIndexById(array, selectedMetaItem.id)
         IN  IF add /\ existingIndex # 0 THEN {"error: Already selected."}
             ELSE IF ~add /\ existingIndex = 0
                  THEN {"error: Item not found to remove."}
             ELSE {}

-----------------------------------------------------------------------------
(* What is on screen. *)

\* the rows of the instance attributeId of the active group (0 when missing)
RowCount(draft, active, attributeId) ==
    LET at == FindAttribute(draft, active, attributeId) IN
    IF at.a = 0 THEN 0 ELSE Len(draft[at.g].attributes[at.a].children)

GroupIds(draft) == {draft[i].id : i \in 1..Len(draft)}

-----------------------------------------------------------------------------
(* Initial state: the useState defaults of the first render, for every      *)
(* order row the component may be given.                                    *)

NoDialog == <<"", NULL>>

\* props.data: an order row with any of the raw values, or a row that has
\* neither an id nor data yet
HostRows == [id : OrderIds, data : RawInputs] \cup {[id |-> NULL, data |-> NULL]}

\* the first render for one of the host rows, with `events` user events ahead
Start(rows, events) ==
    /\ data \in rows
    /\ mounted = FALSE
    /\ groupSelected = <<>>
    /\ savedGroupData = <<>>
    /\ activeGroupId = NULL
    /\ hasChanges = FALSE
    /\ open = NoDialog
    /\ search = <<>>
    /\ loading = TRUE
    /\ saves = <<>>
    /\ searches = <<>>
    /\ db = data.data
    /\ generated = 0
    /\ toasts = {}
    /\ lastOp = [op |-> "construct", confirmed |-> TRUE]
    /\ budget = events

Init == Start(HostRows, MaxEvents)

\* what no editing handler touches
SearchUnchanged == UNCHANGED <<search, loading, searches>>
ServerUnchanged == UNCHANGED <<data, saves, db>>

\* the first render's effects: Effect 1 (parse) and Effect 2 (active group)
Mount ==
    /\ ~mounted
    /\ mounted' = TRUE
    /\ LET parsed == ParseData(data.data, generated) IN
        /\ Render(parsed.groups, parsed.groups, activeGroupId)
        /\ generated' = generated + parsed.ids
        /\ toasts' = parsed.toasts
    /\ lastOp' = [op |-> "useEffect", confirmed |-> TRUE]
    /\ UNCHANGED <<open, budget>>
    /\ SearchUnchanged /\ ServerUnchanged

\* the editor is given the serialization of the document it holds as its
\* data.data, and Effect 1 runs on it
Reparse ==
    /\ mounted
    /\ data' = [data EXCEPT !.data = JSON_stringify(groupSelected)]
    /\ LET parsed == ParseData(data'.data, generated) IN
        /\ Render(parsed.groups, parsed.groups, activeGroupId)
        /\ generated' = generated + parsed.ids
        /\ toasts' = parsed.toasts
    /\ lastOp' = [op |-> "reparse", confirmed |-> TRUE]
    /\ UNCHANGED <<mounted, open, budget, saves, db>>
    /\ SearchUnchanged

-----------------------------------------------------------------------------
(* The handlers of the edit engine. *)

\* EditStep setting the baseline along with the current snapshot
EditStepBaselineFollows(groups, active, notices, name, confirmed) ==
    /\ mounted
    /\ budget > 0
    /\ budget' = budget - 1
    /\ Render(groups, groups, active)
    /\ toasts' = notices
    /\ lastOp' = [op |-> name, confirmed |-> confirmed]
    /\ UNCHANGED <<mounted, generated, search, loading, searches, data, saves, db>>

\* an edit: the new current snapshot, the requested active group, the
\* notices, the handler's name and whether it went past its confirm()
EditStep(groups, active, notices, name, confirmed) ==
    /\ mounted
    /\ budget > 0
    /\ budget' = budget - 1
    /\ Render(groups, savedGroupData, active)
    /\ toasts' = notices
    /\ lastOp' = [op |-> name, confirmed |-> confirmed]
    /\ UNCHANGED <<mounted, generated>>
    /\ SearchUnchanged /\ ServerUnchanged

Edit(groups, active, notices, name) == EditStep(groups, active, notices, name, TRUE)

\* the test of handleAddGroup taking every name for a group name
BlankNameNever(groupName) == FALSE

\* !groupName.trim()
BlankName(groupName) == Trim(groupName) = ""

handleAddGroup(groupName) ==
    IF BlankName(groupName)
    THEN /\ Edit(groupSelected, activeGroupId,
                 {"error: Group name cannot be empty."}, "handleAddGroup")
         /\ UNCHANGED open
    ELSE /\ budget > 0
         /\ budget' = budget - 1
         /\ LET newGroup == [id |-> generateId(generated + 1),
                             title |-> Trim(groupName),
                             attributes |-> <<>>]
            IN  /\ mounted
                /\ Render(AddGroupDraft(groupSelected, newGroup), savedGroupData,
                          newGroup.id)
         /\ generated' = generated + 1
         /\ toasts' = {}
         /\ lastOp' = [op |-> "handleAddGroup", confirmed |-> TRUE]
         /\ open' = NoDialog
         /\ UNCHANGED mounted
         /\ SearchUnchanged /\ ServerUnchanged

\* TabsTrigger onDoubleClick: prompt() gives newName (NULL when cancelled)
RenameGroup(groupId, newName) ==
    /\ groupId \in GroupIds(groupSelected)
    /\ EditStep(IF Falsy(newName) THEN groupSelected
                ELSE RenameGroupDraft(groupSelected, groupId, newName),
                activeGroupId, {}, "renameGroup", ~Falsy(newName))
    /\ UNCHANGED open

\* Tabs onValueChange = setActiveGroupId
SelectTab(groupId) ==
    /\ groupId \in GroupIds(groupSelected)
    /\ Edit(groupSelected, groupId, {}, "selectTab")
    /\ UNCHANGED open

\* the new active id is read from the groupSelected of the render the
\* handler was created in, that is from the groups before the removal
handleDeleteGroup(groupId, confirmed) ==
    /\ groupId \in GroupIds(groupSelected)
    /\ IF ~confirmed
       THEN EditStep(groupSelected, activeGroupId, {}, "handleDeleteGroup", FALSE)
       ELSE Edit(DeleteGroupDraft(groupSelected, groupId),
                 IF Len(groupSelected) > 0 THEN groupSelected[1].id
                 ELSE activeGroupId,
                 {}, "handleDeleteGroup")
    /\ UNCHANGED open

handleSelectAttributeForGroup(attributeDefinition) ==
    IF Falsy(activeGroupId)
    THEN /\ Edit(groupSelected, activeGroupId, {}, "handleSelectAttributeForGroup")
         /\ UNCHANGED open
    ELSE LET newAttributeInstance == [title |-> attributeDefinition.title,
                                      id |-> attributeDefinition.id,
                                      children |-> <<>>]
         IN  /\ Edit(SelectAttributeDraft(groupSelected, activeGroupId,
                                          newAttributeInstance),
                     activeGroupId,
                     SelectAttributeToasts(groupSelected, activeGroupId,
                                           newAttributeInstance),
                     "handleSelectAttributeForGroup")
             /\ open' = NoDialog

\* atts.find(att => att.id === attributeId); 0 when there is none
FindAttributeDefinition(attributeId) == FindIndexById(atts, attributeId)

handleAddAttributeRow(attributeId) ==
    /\ IF Falsy(activeGroupId)
       THEN Edit(groupSelected, activeGroupId, {}, "handleAddAttributeRow")
       ELSE IF FindAttributeDefinition(attributeId) = 0
       THEN Edit(groupSelected, activeGroupId,
                 {"error: Attribute definition not found or has no fields."},
                 "handleAddAttributeRow")
       ELSE Edit(AddRowDraft(groupSelected, activeGroupId, attributeId,
                             NewRow(atts[FindAttributeDefinition(attributeId)])),
                 activeGroupId, {}, "handleAddAttributeRow")
    /\ UNCHANGED open

handleDuplicateAttributeRow(attributeId, rowIndex) ==
    /\ Edit(IF Falsy(activeGroupId) THEN groupSelected
            ELSE DuplicateRowDraft(groupSelected, activeGroupId, attributeId, rowIndex),
            activeGroupId, {}, "handleDuplicateAttributeRow")
    /\ UNCHANGED open

\* handleDeleteAttributeRow removing the row whatever confirm() answers
handleDeleteAttributeRowUnasked(attributeId, rowIndex, confirmed) ==
    /\ EditStep(IF Falsy(activeGroupId) THEN groupSelected
                ELSE DeleteRowDraft(groupSelected, activeGroupId, attributeId, rowIndex),
                activeGroupId, {}, "handleDeleteAttributeRow", confirmed)
    /\ UNCHANGED open

handleDeleteAttributeRow(attributeId, rowIndex, confirmed) ==
    /\ EditStep(IF Falsy(activeGroupId) \/ ~confirmed THEN groupSelected
                ELSE DeleteRowDraft(groupSelected, activeGroupId, attributeId, rowIndex),
                activeGroupId, {}, "handleDeleteAttributeRow", confirmed)
    /\ UNCHANGED open

handleDeleteAttributeInstance(attributeId, confirmed) ==
    /\ EditStep(IF Falsy(activeGroupId) \/ ~confirmed THEN groupSelected
                ELSE DeleteInstanceDraft(groupSelected, activeGroupId, attributeId),
                activeGroupId, {}, "handleDeleteAttributeInstance", confirmed)
    /\ UNCHANGED open

\* handleUpdateFieldValue, which does not set the dialog state itself
UpdateFieldValue(attributeId, rowIndex, fieldIndex, newValue) ==
    Edit(IF Falsy(activeGroupId) THEN groupSelected
         ELSE UpdateFieldValueDraft(groupSelected, activeGroupId, attributeId,
                                    rowIndex, fieldIndex, newValue),
         activeGroupId, {}, "handleUpdateFieldValue")

handleUpdateFieldValue(attributeId, rowIndex, fieldIndex, newValue) ==
    /\ UpdateFieldValue(attributeId, rowIndex, fieldIndex, newValue)
    /\ UNCHANGED open

\* handleUpdateCheckboxValue, which does not set the dialog state itself
UpdateCheckboxValue(attributeId, rowIndex, fieldIndex, selectedMetaItem, add) ==
    IF Falsy(activeGroupId)
    THEN Edit(groupSelected, activeGroupId, {}, "handleUpdateCheckboxValue")
    ELSE Edit(UpdateCheckboxDraft(groupSelected, activeGroupId, attributeId,
                                  rowIndex, fieldIndex, selectedMetaItem, add),
              activeGroupId,
              UpdateCheckboxToasts(groupSelected, activeGroupId, attributeId,
                                   rowIndex, fieldIndex, selectedMetaItem, add),
              IF add THEN "addCheckboxValue" ELSE "removeCheckboxValue")

handleUpdateCheckboxValue(attributeId, rowIndex, fieldIndex, selectedMetaItem, add) ==
    /\ UpdateCheckboxValue(attributeId, rowIndex, fieldIndex, selectedMetaItem, add)
    /\ UNCHANGED open

handleDeleteCheckboxSingleValue(attributeId, rowIndex, fieldIndex, valueToRemove, confirmed) ==
    IF Falsy(activeGroupId) \/ ~confirmed
    THEN /\ EditStep(groupSelected, activeGroupId, {},
                     "handleDeleteCheckboxSingleValue", confirmed)
         /\ UNCHANGED open
    ELSE handleUpdateCheckboxValue(attributeId, rowIndex, fieldIndex,
                                   valueToRemove, FALSE)

-----------------------------------------------------------------------------
(* Saving.  saveAttributeMeta runs up to its await; updateRecord is the      *)
(* server's handling of one call; SaveResume is the code after the await,   *)
(* which still reads the groupSelected of the render it was started in.     *)

EditorUnchanged == UNCHANGED <<mounted, open, search, loading, searches, generated>>

\* SaveDecision without the first early return
SaveDecisionNoCleanCheck(dirty, orderId) ==
    IF Falsy(orderId) THEN "no-id" ELSE "send"

\* SaveDecision without the second early return
SaveDecisionNoIdCheck(dirty, orderId) ==
    IF ~dirty THEN "clean" ELSE "send"

\* the two early returns of saveAttributeMeta
SaveDecision(dirty, orderId) ==
    IF ~dirty THEN "clean"
    ELSE IF Falsy(orderId) THEN "no-id"
    ELSE "send"

saveAttributeMeta ==
    /\ mounted
    /\ budget > 0
    /\ budget' = budget - 1
    /\ IF SaveDecision(hasChanges, data.id) = "clean"
       THEN /\ toasts' = {}
            /\ UNCHANGED saves
       ELSE IF SaveDecision(hasChanges, data.id) = "no-id"
       THEN /\ toasts' = {"error: Order ID is missing."}
            /\ UNCHANGED saves
       ELSE /\ toasts' = {}
            /\ saves' = Append(saves, [groupSelected |-> groupSelected,
                                       orderData |-> JSON_stringify(groupSelected),
                                       orderId |-> data.id,
                                       res |-> "pending"])
    /\ Render(groupSelected, savedGroupData, activeGroupId)
    /\ lastOp' = [op |-> "saveAttributeMeta", confirmed |-> TRUE]
    /\ UNCHANGED <<data, db>>
    /\ EditorUnchanged

\* actions.updateRecord(orderId, {data: orderData}) on the server: the row
\* is written and the call will answer "success"
updateRecord(i) ==
    /\ i \in 1..Len(saves)
    /\ saves[i].res = "pending"
    /\ saves' = [saves EXCEPT ![i].res = "success"]
    /\ db' = saves[i].orderData
    /\ UNCHANGED <<data, groupSelected, savedGroupData, activeGroupId, hasChanges,
                   toasts, lastOp, budget>>
    /\ EditorUnchanged

\* the code after the await.  A call the server has answered resumes with
\* that answer; a call it has not written resumes with a non-success answer
\* ("failure") or in the catch block ("throw").
\* ResumedBaseline reading the latest groupSelected instead of the call's
ResumedBaselineLatest(call, outcome, current, saved) ==
    IF outcome = "success" THEN current ELSE saved

\* ResumedBaseline advancing the baseline whatever the answer
ResumedBaselineAlways(call, outcome, current, saved) == call.groupSelected

\* the baseline after the code behind the await has run for the call `call`:
\* setSavedGroupData(groupSelected) reads the groupSelected of the render the
\* call was started in
ResumedBaseline(call, outcome, current, saved) ==
    IF outcome = "success" THEN call.groupSelected ELSE saved

SaveResume(i, outcome) ==
    /\ i \in 1..Len(saves)
    /\ (outcome = "success") = (saves[i].res = "success")
    /\ saves' = SpliceOut(saves, i - 1)
    /\ Render(groupSelected,
              ResumedBaseline(saves[i], outcome, groupSelected, savedGroupData),
              activeGroupId)
    /\ toasts' = IF outcome = "success"
                 THEN {"success: Order attributes updated successfully"}
                 ELSE IF outcome = "failure"
                 THEN {"error: Failed to update order attributes."}
                 ELSE {"error: An error occurred while saving."}
    /\ lastOp' = [op |-> "saveResume", confirmed |-> TRUE, call |-> saves[i],
                  outcome |-> outcome]
    /\ UNCHANGED <<data, db, budget>>
    /\ EditorUnchanged

Outcomes == {"success", "failure", "throw"}

-----------------------------------------------------------------------------

\* The handlers are called from what the last render shows: the tabs of the
\* groups, the instances of the active group with their rows and fields (a
\* field's editor is chosen by the type of the template's field definition at
\* the same index, "text" when there is none), the templates not yet in the
\* active group, and the entries of a checkbox field.

ActiveAttributes ==
    LET g == FindIndexById(groupSelected, activeGroupId) IN
    IF g = 0 THEN <<>> ELSE groupSelected[g].attributes

ShownAttributeIds == {ActiveAttributes[i].id : i \in 1..Len(ActiveAttributes)}

ShownRows(attributeId) ==
    0..(RowCount(groupSelected, activeGroupId, attributeId) - 1)

ShownRow(attributeId, rowIndex) ==
    ActiveAttributes[FindIndexById(ActiveAttributes, attributeId)].children[rowIndex + 1]

\* fieldDefinition?.type ?? "text"
FieldType(attributeId, fieldIndex) ==
    LET d == FindAttributeDefinition(attributeId) IN
    IF d = 0 \/ fieldIndex + 1 \notin 1..Len(atts[d].children) THEN "text"
    ELSE atts[d].children[fieldIndex + 1].type

ShownFields(attributeId, rowIndex, type) ==
    {f \in 0..(Len(ShownRow(attributeId, rowIndex)) - 1) :
        FieldType(attributeId, f) = type}

ShownEntries(attributeId, rowIndex, fieldIndex) ==
    LET value == ShownRow(attributeId, rowIndex)[fieldIndex + 1].value IN
    IF IsArrayValue(value) THEN {value.arr[i] : i \in 1..Len(value.arr)} ELSE {}

\* availableAttsForActiveGroup: empty without an active group, otherwise the
\* order templates the active group does not hold yet
availableAttsForActiveGroup ==
    IF FindIndexById(groupSelected, activeGroupId) = 0 THEN {}
    ELSE {atts[i] : i \in {k \in 1..Len(atts) : atts[k].id \notin ShownAttributeIds}}

\* the operations of the edit engine
EditEngineOp ==
    \/ \E groupName \in GroupNames : handleAddGroup(groupName)
    \/ \E groupId \in GroupIds(groupSelected), newName \in NewNames \cup {NULL} :
            RenameGroup(groupId, newName)
    \/ \E groupId \in GroupIds(groupSelected), confirmed \in BOOLEAN :
            handleDeleteGroup(groupId, confirmed)
    \/ \E attributeDefinition \in availableAttsForActiveGroup :
            handleSelectAttributeForGroup(attributeDefinition)
    \/ \E attributeId \in ShownAttributeIds : handleAddAttributeRow(attributeId)
    \/ \E attributeId \in ShownAttributeIds :
            \E rowIndex \in ShownRows(attributeId) :
                handleDuplicateAttributeRow(attributeId, rowIndex)
    \/ \E attributeId \in ShownAttributeIds, confirmed \in BOOLEAN :
            \E rowIndex \in ShownRows(attributeId) :
                handleDeleteAttributeRow(attributeId, rowIndex, confirmed)
    \/ \E attributeId \in ShownAttributeIds, confirmed \in BOOLEAN :
            handleDeleteAttributeInstance(attributeId, confirmed)
    \/ \E attributeId \in ShownAttributeIds, text \in TextValues :
            \E rowIndex \in ShownRows(attributeId) :
                \E fieldIndex \in ShownFields(attributeId, rowIndex, "text") :
                    handleUpdateFieldValue(attributeId, rowIndex, fieldIndex, Str(text))
    \/ \E attributeId \in ShownAttributeIds, item \in MetaItems :
            \E rowIndex \in ShownRows(attributeId) :
                \E fieldIndex \in ShownFields(attributeId, rowIndex, "checkbox") :
                    handleUpdateCheckboxValue(attributeId, rowIndex, fieldIndex, item, TRUE)
    \/ \E attributeId \in ShownAttributeIds, confirmed \in BOOLEAN :
            \E rowIndex \in ShownRows(attributeId) :
                \E fieldIndex \in ShownFields(attributeId, rowIndex, "checkbox") :
                    \E item \in ShownEntries(attributeId, rowIndex, fieldIndex) :
                        handleDeleteCheckboxSingleValue(attributeId, rowIndex, fieldIndex,
                                                        item, confirmed)

\* a call of updateRecord resumes without success
SaveFails ==
    \E i \in 1..Len(saves), outcome \in {"failure", "throw"} : SaveResume(i, outcome)

Next ==
    \/ Mount
    \/ EditEngineOp
    \/ \E groupId \in GroupIds(groupSelected) : SelectTab(groupId)
    \/ saveAttributeMeta
    \/ \E i \in 1..Len(saves) : updateRecord(i)
    \/ \E i \in 1..Len(saves), outcome \in Outcomes : SaveResume(i, outcome)

Spec == Init /\ [][Next]_vars

-----------------------------------------------------------------------------
(* The end-to-end scenario: on an empty document createGroup,               *)
(* selectAttributeForGroup, addRow, setFieldValue(field 0, "XL"), then      *)
(* saves; once a save has succeeded and the document is Clean, one more     *)
(* addRow, then saves again.  The saves may fail and may overlap.           *)

EmptyHostRows == [id : OrderIds, data : {NULL, "[]"}]

ScenarioInit == Start(EmptyHostRows, ScenarioEvents)

ScenarioStep == ScenarioEvents - budget + 1

ScenarioRows == RowCount(groupSelected, activeGroupId, "size-template")

ScenarioNext ==
    \/ Mount
    \/ ScenarioStep = 1 /\ handleAddGroup(" Shipping ")
    \/ ScenarioStep = 2 /\ \E attributeDefinition \in availableAttsForActiveGroup :
            handleSelectAttributeForGroup(attributeDefinition)
    \/ ScenarioStep = 3 /\ handleAddAttributeRow("size-template")
    \/ ScenarioStep = 4 /\ handleUpdateFieldValue("size-template", 0, 0, Str("XL"))
    \/ ScenarioStep > 4 /\ saveAttributeMeta
    \/ /\ ScenarioStep > 4
       /\ ~hasChanges /\ ScenarioRows = 1
       /\ handleAddAttributeRow("size-template")
    \/ \E i \in 1..Len(saves) : updateRecord(i)
    \/ \E i \in 1..Len(saves), outcome \in Outcomes : SaveResume(i, outcome)

ScenarioSpec == ScenarioInit /\ [][ScenarioNext]_vars

-----------------------------------------------------------------------------
(* The edit engine called as an interface: as Spec, and in addition         *)
(* handleSelectAttributeForGroup is called with any template of the order   *)
(* catalog, also one the active group holds already.                        *)

OrderTemplates == {atts[i] : i \in 1..Len(atts)}

SelectAnyAttribute ==
    \E attributeDefinition \in OrderTemplates :
        handleSelectAttributeForGroup(attributeDefinition)

EngineNext == Next \/ SelectAnyAttribute

EngineSpec == Init /\ [][EngineNext]_vars

-----------------------------------------------------------------------------
(* The checkbox operations on the field "tags" of the one row of a stored   *)
(* document: handleUpdateCheckboxValue is called with any item, to add it   *)
(* or to remove it, and the entries shown can be removed one by one.        *)

CheckboxRows == [id : OrderIds, data : {JSON_stringify(CheckboxGroups)}]

CheckboxInit == Start(CheckboxRows, CheckboxEvents)

CheckboxNext ==
    \/ Mount
    \/ \E item \in CheckboxItems, add \in BOOLEAN :
            handleUpdateCheckboxValue("size-template", 0, 1, item, add)
    \/ /\ "size-template" \in ShownAttributeIds
       /\ \E item \in ShownEntries("size-template", 0, 1), confirmed \in BOOLEAN :
            handleDeleteCheckboxSingleValue("size-template", 0, 1, item, confirmed)

CheckboxSpec == CheckboxInit /\ [][CheckboxNext]_vars

-----------------------------------------------------------------------------
(* The round trip: the editor loads a stored current-shape document or a    *)
(* legacy array, and is then given the serialization of what it holds.      *)

RoundTripRows ==
    [id : OrderIds,
     data : {JSON_stringify(d) : d \in Documents}
                \cup {StringifyInstances(LegacyInstances), StringifyInstances(LegacyPair)}]

RoundTripInit == Start(RoundTripRows, 0)

RoundTripNext == Mount \/ Reparse

RoundTripSpec == RoundTripInit /\ [][RoundTripNext]_vars

-----------------------------------------------------------------------------
(* The search dialog.  actions.searchAttributeMeta is the external search   *)
(* service: search(term, fieldDefinitionId) gives value records             *)
(* {id, key, value}.  A call of searchAttributeMeta stays in `searches`,    *)
(* with its outcome, after it has resumed.                                  *)

\* what the user types into the dialog's input
SearchTerms == {"", "red"}

\* the value records the service holds for a field definition
SearchRecords(fieldId) ==
    IF fieldId = "tags"
    THEN << [id |-> "m1", key |-> "red", value |-> "#ff0000"],
            [id |-> "m2", key |-> "docs", value |-> "https://x.io/a"] >>
    ELSE IF fieldId = "color"
    THEN << [id |-> "m2", key |-> "docs", value |-> "https://x.io/a"],
            [id |-> "m1", key |-> "red", value |-> "#ff0000"] >>
    ELSE <<>>

RECURSIVE FilterByKey(_, _)
FilterByKey(records, term) ==
    IF records = <<>> THEN <<>>
    ELSE IF term = "" \/ Head(records).key = term
    THEN <<Head(records)>> \o FilterByKey(Tail(records), term)
    ELSE FilterByKey(Tail(records), term)

\* res.data of a successful answer
SearchData(searchTerm, attributeId) == FilterByKey(SearchRecords(attributeId), searchTerm)

\* the answer appended to what is shown instead of replacing it
SearchResultAppended(call, outcome, shown) ==
    IF outcome = "success" THEN shown \o SearchData(call.searchTerm, call.attributeId)
    ELSE shown

\* the list left as it is when the call fails
SearchResultKept(call, outcome, shown) ==
    IF outcome = "success" THEN SearchData(call.searchTerm, call.attributeId)
    ELSE shown

\* the list the code after the await sets: setSearch(res.data || []) on
\* success, setSearch([]) otherwise
SearchResult(call, outcome, shown) ==
    IF outcome = "success" THEN SearchData(call.searchTerm, call.attributeId)
    ELSE <<>>

\* searchAttributeMeta up to its await: setLoading(true), setSearch([]) and
\* the call
SearchCall(searchTerm, attributeId) ==
    /\ loading' = TRUE
    /\ search' = <<>>
    /\ searches' = Append(searches, [searchTerm |-> searchTerm,
                                     attributeId |-> attributeId,
                                     res |-> "pending"])

\* the code of searchAttributeMeta after the await, for the i-th call
SearchResume(i, outcome) ==
    /\ i \in 1..Len(searches)
    /\ searches[i].res = "pending"
    /\ searches' = [searches EXCEPT ![i].res = outcome]
    /\ search' = SearchResult(searches[i], outcome, search)
    /\ loading' = FALSE
    /\ toasts' = IF outcome = "success" THEN {}
                 ELSE IF outcome = "failure"
                 THEN {"error: Failed to search attribute values."}
                 ELSE {"error: An error occurred during search."}
    /\ Render(groupSelected, savedGroupData, activeGroupId)
    /\ lastOp' = [op |-> "searchResume", confirmed |-> TRUE, call |-> i,
                  outcome |-> outcome]
    /\ UNCHANGED <<data, mounted, open, saves, db, generated, budget>>

\* the button of a select or checkbox field; the dialog is modal, so the
\* button is reached only while no dialog is open
OpenSearch(attributeId, rowIndex, fieldIndex) ==
    /\ mounted
    /\ budget > 0
    /\ budget' = budget - 1
    /\ open[1] = ""
    /\ LET field == ShownRow(attributeId, rowIndex)[fieldIndex + 1] IN
        /\ SearchCall("", field.id)
        /\ open' = <<"search", [groupId |-> activeGroupId,
                                attributeId |-> attributeId,
                                rowIndex |-> rowIndex,
                                fieldIndex |-> fieldIndex,
                                fieldId |-> field.id,
                                fieldTitle |-> field.title,
                                fieldType |-> FieldType(attributeId, fieldIndex)]>>
    /\ Render(groupSelected, savedGroupData, activeGroupId)
    /\ toasts' = {}
    /\ lastOp' = [op |-> "openSearch", confirmed |-> TRUE]
    /\ UNCHANGED <<data, mounted, saves, db, generated>>

\* Enter in the dialog's input
SubmitSearch(searchTerm) ==
    /\ mounted
    /\ budget > 0
    /\ budget' = budget - 1
    /\ open[1] = "search"
    /\ IF Falsy(open[2].fieldId)
       THEN SearchUnchanged
       ELSE SearchCall(searchTerm, open[2].fieldId)
    /\ Render(groupSelected, savedGroupData, activeGroupId)
    /\ toasts' = {}
    /\ lastOp' = [op |-> "submitSearch", confirmed |-> TRUE]
    /\ UNCHANGED <<data, mounted, open, saves, db, generated>>

\* Dialog onOpenChange(false)
CloseSearch ==
    /\ mounted
    /\ budget > 0
    /\ budget' = budget - 1
    /\ open[1] = "search"
    /\ search' = <<>>
    /\ loading' = TRUE
    /\ open' = NoDialog
    /\ Render(groupSelected, savedGroupData, activeGroupId)
    /\ toasts' = {}
    /\ lastOp' = [op |-> "closeSearch", confirmed |-> TRUE]
    /\ UNCHANGED <<data, mounted, saves, searches, db, generated>>

\* the results are listed when !loading && search?.length > 0
ShownResults ==
    IF open[1] = "search" /\ ~loading THEN 1..Len(search) ELSE {}

\* CommandItem onSelect of the index-th result
SelectResult(index) ==
    /\ index \in ShownResults
    /\ LET item == search[index]
           selectedMetaItem == [id |-> item.id, title |-> item.key,
                                value |-> item.value]
       IN  IF open[2].fieldType = "checkbox"
           THEN UpdateCheckboxValue(open[2].attributeId, open[2].rowIndex,
                                    open[2].fieldIndex, selectedMetaItem, TRUE)
           ELSE UpdateFieldValue(open[2].attributeId, open[2].rowIndex,
                                 open[2].fieldIndex, Obj(selectedMetaItem))
    /\ open' = NoDialog

\* the stored document the dialog is opened on
SearchRows == [id : OrderIds, data : {StringifyAny(Arr(StoredGroups))}]

SearchInit == Start(SearchRows, SearchEvents)

SearchNext ==
    \/ Mount
    \/ \E attributeId \in ShownAttributeIds :
            \E rowIndex \in ShownRows(attributeId) :
                \E fieldIndex \in ShownFields(attributeId, rowIndex, "select")
                                    \cup ShownFields(attributeId, rowIndex, "checkbox") :
                    OpenSearch(attributeId, rowIndex, fieldIndex)
    \/ \E searchTerm \in SearchTerms : SubmitSearch(searchTerm)
    \/ \E i \in 1..Len(searches), outcome \in Outcomes : SearchResume(i, outcome)
    \/ CloseSearch
    \/ \E index \in ShownResults : SelectResult(index)

SearchSpec == SearchInit /\ [][SearchNext]_vars

-----------------------------------------------------------------------------
(* Saves overlapping edits and each other: on the stored document the text  *)
(* field of the first row is edited, rows are added and the document is     *)
(* saved, the calls of updateRecord being served and answered in any order. *)

OverlapInit == Start(SearchRows, OverlapEvents)

OverlapNext ==
    \/ Mount
    \/ \E text \in TextValues :
            handleUpdateFieldValue("size-template", 0, 0, Str(text))
    \/ handleAddAttributeRow("size-template")
    \/ saveAttributeMeta
    \/ \E i \in 1..Len(saves) : updateRecord(i)
    \/ \E i \in 1..Len(saves), outcome \in Outcomes : SaveResume(i, outcome)

OverlapSpec == OverlapInit /\ [][OverlapNext]_vars

-----------------------------------------------------------------------------
(* The host refreshes the row while the editor is open: the edits and saves *)
(* of OverlapSpec, and the host rendering the editor again with the row as  *)
(* the server holds it.                                                     *)

\* a render with a new props.data: Effect 1 runs again when data.data is not
\* the value of the render before (its dependency array is [data?.data])
Refresh ==
    /\ mounted
    /\ data' = [data EXCEPT !.data = db]
    /\ data'.data # data.data
    /\ LET parsed == ParseData(data'.data, generated) IN
        /\ Render(parsed.groups, parsed.groups, activeGroupId)
        /\ generated' = generated + parsed.ids
        /\ toasts' = parsed.toasts
    /\ lastOp' = [op |-> "useEffect", confirmed |-> TRUE]
    /\ UNCHANGED <<mounted, open, budget, saves, db>>
    /\ SearchUnchanged

RefreshNext == OverlapNext \/ Refresh

RefreshSpec == OverlapInit /\ [][RefreshNext]_vars

-----------------------------------------------------------------------------
(* handleUpdateFieldValue called as an interface, next to the search        *)
(* dialog: with the text of an input, for any instance, row and field, also *)
(* ones the active group does not hold.                                     *)

FieldAttributeIds == {"size-template", "user-template", "none"}
FieldRowIndexes == 0..1
FieldIndexes == {0, 3}

UpdateAnyField ==
    /\ open[1] = ""
    /\ \E attributeId \in FieldAttributeIds, rowIndex \in FieldRowIndexes :
        \E fieldIndex \in FieldIndexes, text \in TextValues :
            handleUpdateFieldValue(attributeId, rowIndex, fieldIndex, Str(text))

FieldNext == SearchNext \/ UpdateAnyField

FieldSpec == SearchInit /\ [][FieldNext]_vars

-----------------------------------------------------------------------------
(* The initial load: the editor is mounted on a host row holding any of the *)
(* raw values or the serialization of a current-shape document of one or    *)
(* two groups, and Save Changes is requested right after.                   *)

LoadRows ==
    [id : OrderIds, data : RawInputs \cup {JSON_stringify(d) : d \in Documents}]
        \cup {[id |-> NULL, data |-> NULL]}

LoadInit == Start(LoadRows, LoadEvents)

LoadNext == Mount \/ saveAttributeMeta

LoadSpec == LoadInit /\ [][LoadNext]_vars

-----------------------------------------------------------------------------
(* Properties of the dirty-tracking and persistence gate. *)

SaveResumed(outcomes) == lastOp.op = "saveResume" /\ lastOp.outcome \in outcomes

\* C1: when a call of updateRecord answers success, the baseline becomes
\* exactly the snapshot that call serialized and sent, not the snapshot
\* current when the answer arrives; if the current snapshot is still the one
\* sent, the document is Clean afterwards.
C1_BaselineIsSentSnapshot ==
    SaveResumed({"success"}) =>
        /\ savedGroupData = lastOp.call.groupSelected
        /\ JSON_stringify(savedGroupData) = lastOp.call.orderData
        /\ (groupSelected = lastOp.call.groupSelected => ~hasChanges)

\* a successful save whose answer arrived after a further edit
C1_Witness ==
    /\ SaveResumed({"success"})
    /\ groupSelected # lastOp.call.groupSelected
    /\ savedGroupData = lastOp.call.groupSelected
    /\ hasChanges

\* C2: when a save fails (updateRecord throws or answers non-success), the
\* baseline, the current snapshot and the dirty flag are what they were
\* before, so a document that differs from its baseline stays Dirty.
C2_FailedSaveKeepsState ==
    [][SaveFails =>
        /\ savedGroupData' = savedGroupData
        /\ groupSelected' = groupSelected
        /\ hasChanges' = hasChanges
        /\ (groupSelected # savedGroupData => hasChanges')]_vars

\* a failed save of the snapshot that is still current and still unsaved
C2_Witness ==
    /\ SaveResumed({"failure", "throw"})
    /\ groupSelected = lastOp.call.groupSelected
    /\ groupSelected # savedGroupData
    /\ hasChanges

\* C3: at most one updateRecord call is in flight per document at any time.
C3_SingleFlight == Len(saves) <= 1

\* C4: the dirty flag equals serialize(current) # serialize(baseline), and
\* this is the same as the two snapshots being structurally different.
C4_DirtyIsSerializedDifference ==
    /\ hasChanges = (JSON_stringify(groupSelected) # JSON_stringify(savedGroupData))
    /\ hasChanges = (groupSelected # savedGroupData)

\* the stored document with one field value retyped: Dirty
C4_Witness ==
    /\ savedGroupData = StoredGroups
    /\ groupSelected =
        [StoredGroups EXCEPT ![1].attributes[1].children[1][1].value = Str("")]
    /\ hasChanges

\* C5 as stated: from Clean, every operation of the edit engine that went
\* past its confirmation and raised no notice moves the document to Dirty.
C5_EveryEditMakesDirty ==
    [][(~hasChanges /\ EditEngineOp /\ lastOp'.confirmed /\ toasts' = {})
            => hasChanges']_vars

\* C5 amended: from Clean, an operation of the edit engine moves the document
\* to Dirty exactly when it changes the current snapshot.
C5_EditMakesDirtyIffChanged ==
    [][(~hasChanges /\ EditEngineOp)
            => (hasChanges' = (groupSelected' # groupSelected))]_vars

\* the first event after the load was an edit, and the document is Dirty
C5_Witness ==
    /\ budget = MaxEvents - 1
    /\ lastOp.op = "handleUpdateFieldValue"
    /\ groupSelected # savedGroupData
    /\ hasChanges

\* C6: a save request on a Clean document makes no updateRecord call and
\* changes neither the current snapshot nor the baseline.
C6_CleanSaveIsNoOp ==
    [][(~hasChanges /\ saveAttributeMeta)
            => UNCHANGED <<saves, db, groupSelected, savedGroupData, hasChanges>>]_vars

\* a save request was made on a Clean document
C6_Witness ==
    /\ lastOp.op = "saveAttributeMeta"
    /\ ~hasChanges
    /\ saves = <<>>
    /\ Len(groupSelected) > 0

\* C7: a save request on a Dirty document whose host has no id raises the
\* error and starts no updateRecord call; snapshot, baseline and dirty flag
\* are unchanged.
C7_MissingIdAbortsSave ==
    [][(hasChanges /\ Falsy(data.id) /\ saveAttributeMeta)
            => /\ UNCHANGED <<saves, db, groupSelected, savedGroupData, hasChanges>>
               /\ toasts' = {"error: Order ID is missing."}]_vars

\* a save request was made on a Dirty document without host id
C7_Witness ==
    /\ lastOp.op = "saveAttributeMeta"
    /\ hasChanges
    /\ Falsy(data.id)
    /\ toasts = {"error: Order ID is missing."}
    /\ saves = <<>>

-----------------------------------------------------------------------------
(* The end-to-end scenario. *)

\* the document after the four edits of the scenario
ScenarioDocument(groupId) ==
    << [id |-> groupId, title |-> "Shipping",
        attributes |-> << [title |-> "Size", id |-> "size-template",
                           children |-> <<SampleRow>>] >>] >>

\* C8: in the scenario, the successful save of the four edits ends with the
\* baseline equal to the current snapshot, which is the document the edits
\* built, and Clean; the addRow that follows makes the document Dirty, and it
\* stays Dirty in every step that is not the resumption of a successful save.
C8_ScenarioSaveThenAddRow ==
    /\ []((SaveResumed({"success"}) /\ ScenarioRows = 1) =>
            /\ groupSelected = ScenarioDocument(generateId(1))
            /\ savedGroupData = groupSelected
            /\ ~hasChanges)
    /\ [][/\ (ScenarioRows = 1 /\ ScenarioRows' = 2) => (~hasChanges /\ hasChanges')
          /\ (/\ ScenarioRows = 2
              /\ hasChanges
              /\ ~(\E i \in 1..Len(saves) : SaveResume(i, "success")))
                => hasChanges']_vars

\* the whole scenario has run and a save after the second addRow has failed
C8_Witness ==
    /\ ScenarioRows = 2
    /\ SaveResumed({"failure", "throw"})
    /\ Len(lastOp.call.groupSelected[1].attributes[1].children) = 2
    /\ savedGroupData = ScenarioDocument(generateId(1))
    /\ hasChanges

-----------------------------------------------------------------------------
(* Properties of the load. *)

Loaded == lastOp.op = "useEffect"

\* raw values that are absent, empty, malformed, not an array, an empty array
MalformedInputs == {"[{\"id\":"}
DegenerateInputs == {NULL, "", "7", "{}", "[]"} \cup MalformedInputs

\* the legacy documents among the raw values
LegacyInputs == {LegacyInstances, LegacyPair}

\* C9: raw data that is empty or absent, that fails to parse, that is not an
\* array or that is an empty array loads as the empty document; the load
\* failure notice is raised exactly for the text that fails to parse; the
\* effect has a result for each of these values (the SyntaxError is caught).
C9_DegenerateDataLoadsEmpty ==
    /\ (~mounted /\ data.data \in DegenerateInputs) =>
        /\ ParseData(data.data, generated).groups = <<>>
        /\ ParseData(data.data, generated).ids = 0
    /\ (Loaded /\ data.data \in DegenerateInputs) =>
        /\ groupSelected = <<>>
        /\ savedGroupData = <<>>
        /\ ("error: Failed to load order attributes." \in toasts)
                = (data.data \in MalformedInputs)

\* malformed data was loaded
C9_Witness ==
    /\ Loaded
    /\ data.data \in MalformedInputs
    /\ groupSelected = <<>>
    /\ toasts = {"error: Failed to load order attributes."}

\* C10: a legacy flat array L loads as exactly one group titled "Default
\* Group", with a newly generated id, whose attributes are L.
C10_LegacyWrappedInDefaultGroup ==
    \A L \in LegacyInputs :
        (Loaded /\ data.data = StringifyAny(Arr(L))) =>
            /\ Len(groupSelected) = 1
            /\ groupSelected[1].title = "Default Group"
            /\ groupSelected[1].attributes = L
            /\ generated = 1
            /\ groupSelected[1].id = generateId(generated)
            /\ groupSelected[1].id \notin {L[i].id : i \in 1..Len(L)}

\* the two-instance legacy array was loaded
C10_Witness ==
    /\ Loaded
    /\ data.data = StringifyAny(Arr(LegacyPair))
    /\ Len(groupSelected) = 1
    /\ groupSelected[1].attributes = LegacyPair

-----------------------------------------------------------------------------
(* Properties of the round trip. *)

\* C11: parsing the serialization of a current-shape document gives the
\* document back: a loaded stored document serializes to the text it was
\* loaded from, and re-parsing the serialization of the document the editor
\* holds (loaded as it is, or migrated) leaves every group and id as it was
\* and generates no id.
C11_ParseOfSerializedIsSame ==
    /\ [](Loaded =>
            /\ Len(groupSelected) > 0
            /\ (generated = 0 =>
                    /\ groupSelected \in Documents
                    /\ JSON_stringify(groupSelected) = data.data))
    /\ [][Reparse =>
            /\ groupSelected' = groupSelected
            /\ savedGroupData' = groupSelected
            /\ generated' = generated
            /\ toasts' = {}]_vars

\* the serialization of a migrated legacy document was parsed again
C11_Witness ==
    /\ lastOp.op = "reparse"
    /\ generated = 1
    /\ Len(groupSelected) = 1
    /\ groupSelected[1].title = "Default Group"
    /\ groupSelected[1].attributes = LegacyPair
    /\ data.data = JSON_stringify(groupSelected)

-----------------------------------------------------------------------------
(* Properties of the edit engine. *)

\* a confirmed deleteGroup of the group that is active
DeleteActiveGroup ==
    \E groupId \in GroupIds(groupSelected) :
        groupId = activeGroupId /\ handleDeleteGroup(groupId, TRUE)

\* C12: after a confirmed deleteGroup of the active group, the active group
\* is the first group of the remaining document if groups remain, and no
\* group is active (activeGroupId is null) if the last group was deleted.
C12_DeleteActiveSelectsFirstRemaining ==
    [][DeleteActiveGroup =>
        IF Len(groupSelected') > 0
        THEN activeGroupId' = groupSelected'[1].id
        ELSE activeGroupId' = NULL]_vars

\* no two elements of seq have the same id
UniqueIds(seq) == \A i, j \in 1..Len(seq) : seq[i].id = seq[j].id => i = j

\* C13: the loaded documents have unique group ids and, within each group,
\* unique instance ids; after any sequence of operations of the edit engine
\* both still hold.
C13_IdsStayUnique ==
    /\ UniqueIds(groupSelected)
    /\ \A g \in 1..Len(groupSelected) : UniqueIds(groupSelected[g].attributes)

\* two groups were created and an instance was added to the second
C13_Witness ==
    /\ lastOp.op = "handleSelectAttributeForGroup"
    /\ Len(groupSelected) = 2
    /\ groupSelected[1].id # groupSelected[2].id
    /\ Len(groupSelected[2].attributes) = 1

\* C14: selectAttributeForGroup for a template the active group does not
\* hold appends exactly one instance {title, id, children = []} of the
\* template at the end of that group's attributes and changes nothing else;
\* for a template the group holds already the document is unchanged and the
\* notice raised is an info notice.
C14_SelectAppendsOrRejects ==
    [][\A attributeDefinition \in OrderTemplates :
        (/\ handleSelectAttributeForGroup(attributeDefinition)
         /\ FindIndexById(groupSelected, activeGroupId) # 0) =>
            LET g == FindIndexById(groupSelected, activeGroupId) IN
            IF \E k \in 1..Len(groupSelected[g].attributes) :
                    groupSelected[g].attributes[k].id = attributeDefinition.id
            THEN /\ groupSelected' = groupSelected
                 /\ hasChanges' = hasChanges
                 /\ toasts' = {"info: Attribute already added to this group."}
            ELSE /\ Len(groupSelected') = Len(groupSelected)
                 /\ \A k \in 1..Len(groupSelected) :
                        k # g => groupSelected'[k] = groupSelected[k]
                 /\ groupSelected'[g].id = groupSelected[g].id
                 /\ groupSelected'[g].title = groupSelected[g].title
                 /\ groupSelected'[g].attributes =
                        groupSelected[g].attributes
                            \o << [title |-> attributeDefinition.title,
                                   id |-> attributeDefinition.id,
                                   children |-> <<>>] >>
                 /\ toasts' = {}]_vars

\* a template was added to a new group and then selected once more
C14_Witness ==
    /\ lastOp.op = "handleSelectAttributeForGroup"
    /\ toasts = {"info: Attribute already added to this group."}
    /\ Len(ActiveAttributes) = 1
    /\ ActiveAttributes[1] = [title |-> "Size", id |-> "size-template", children |-> <<>>]
    /\ savedGroupData = <<>>

\* C15: createGroup with the name " Shipping " (non-blank after trimming)
\* appends exactly one group at the end of the document, with an id no
\* group had, the title "Shipping" and no attributes; the groups there were
\* are unchanged and in order, and the new group is the active group.
C15_CreateGroupAppendsAndActivates ==
    [][handleAddGroup(" Shipping ") =>
        /\ Len(groupSelected') = Len(groupSelected) + 1
        /\ SubSeq(groupSelected', 1, Len(groupSelected)) = groupSelected
        /\ groupSelected'[Len(groupSelected')].title = "Shipping"
        /\ groupSelected'[Len(groupSelected')].attributes = <<>>
        /\ groupSelected'[Len(groupSelected')].id \notin GroupIds(groupSelected)
        /\ groupSelected'[Len(groupSelected')].id # NULL
        /\ activeGroupId' = groupSelected'[Len(groupSelected')].id
        /\ toasts' = {}]_vars

\* a group was created after the stored one and is active
C15_Witness ==
    /\ lastOp.op = "handleAddGroup"
    /\ Len(groupSelected) = 2
    /\ groupSelected[1] = StoredGroups[1]
    /\ groupSelected[2] = [id |-> generateId(1), title |-> "Shipping", attributes |-> <<>>]
    /\ activeGroupId = groupSelected[2].id
    /\ hasChanges

\* C16: createGroup with a name that is blank after trimming leaves the
\* document, the baseline, the active group and the dirty flag unchanged and
\* raises a notice.
C16_BlankGroupNameIsRejected ==
    [][handleAddGroup("  ") =>
        /\ UNCHANGED <<groupSelected, savedGroupData, activeGroupId, hasChanges>>
        /\ generated' = generated
        /\ toasts' = {"error: Group name cannot be empty."}]_vars

\* a blank name was given on an edited document
C16_Witness ==
    /\ lastOp.op = "handleAddGroup"
    /\ toasts = {"error: Group name cannot be empty."}
    /\ hasChanges
    /\ Len(groupSelected) = 1

\* the rows of the instance attributeId of the active group in draft
RowsOf(draft, attributeId) ==
    LET at == FindAttribute(draft, activeGroupId, attributeId) IN
    IF at.a = 0 THEN <<>> ELSE draft[at.g].attributes[at.a].children

\* draft and other are the same but for the rows of the instance attributeId
\* of the active group
SameButRowsOf(draft, other, attributeId) ==
    LET at == FindAttribute(draft, activeGroupId, attributeId) IN
    /\ at.a # 0
    /\ other = [draft EXCEPT ![at.g].attributes[at.a].children =
                    RowsOf(other, attributeId)]

\* C17: addRow on an instance of the active group whose template is in the
\* order catalog appends exactly one row at the end of the instance's rows
\* and changes nothing else; the row has one field per field definition of
\* the template, field i with the id and title of definition i and the
\* value [] when the definition's type is checkbox and "" otherwise.
C17_AddRowAppendsTemplateRow ==
    [][\A d \in 1..Len(memoriez) :
        (/\ memoriez[d].mapto = "order"
         /\ memoriez[d].id \in ShownAttributeIds
         /\ handleAddAttributeRow(memoriez[d].id)) =>
            LET rows == RowsOf(groupSelected, memoriez[d].id)
                rowsAfter == RowsOf(groupSelected', memoriez[d].id)
                row == rowsAfter[Len(rowsAfter)]
            IN  /\ activeGroupId' = activeGroupId
                /\ SameButRowsOf(groupSelected, groupSelected', memoriez[d].id)
                /\ Len(rowsAfter) = Len(rows) + 1
                /\ SubSeq(rowsAfter, 1, Len(rows)) = rows
                /\ Len(row) = Len(memoriez[d].children)
                /\ \A f \in 1..Len(row) :
                        /\ row[f].id = memoriez[d].children[f].id
                        /\ row[f].title = memoriez[d].children[f].title
                        /\ row[f].value =
                                IF memoriez[d].children[f].type = "checkbox"
                                THEN Arr(<<>>) ELSE Str("")
                /\ toasts' = {}]_vars

\* a second row was added below the stored one
C17_Witness ==
    /\ lastOp.op = "handleAddAttributeRow"
    /\ toasts = {}
    /\ RowsOf(groupSelected, "size-template") =
            << SampleRow,
               << [id |-> "size", title |-> "Size", value |-> Str("")],
                  [id |-> "tags", title |-> "Tags", value |-> Arr(<<>>)],
                  [id |-> "color", title |-> "Color", value |-> Str("")] >> >>

\* C18: addRow for an instance of the active group whose template is not in
\* the catalog filtered to mapto = "order" leaves the document, the baseline
\* and the dirty flag unchanged and raises an error notice.
C18_AddRowWithoutTemplateIsRejected ==
    [][\A attributeId \in ShownAttributeIds :
        (/\ \A d \in 1..Len(memoriez) :
                memoriez[d].id = attributeId => memoriez[d].mapto # "order"
         /\ handleAddAttributeRow(attributeId)) =>
            /\ UNCHANGED <<groupSelected, savedGroupData, activeGroupId, hasChanges>>
            /\ toasts' = {"error: Attribute definition not found or has no fields."}]_vars

\* addRow was asked for the stored instance of a user template
C18_Witness ==
    /\ lastOp.op = "handleAddAttributeRow"
    /\ toasts = {"error: Attribute definition not found or has no fields."}
    /\ "user-template" \in ShownAttributeIds
    /\ RowsOf(groupSelected, "user-template") = <<>>
    /\ ~hasChanges

\* an edit of the value of a field of row rowIndex of the instance attributeId
EditOfRow(attributeId, rowIndex) ==
    \/ \E fieldIndex \in ShownFields(attributeId, rowIndex, "text"), text \in TextValues :
            handleUpdateFieldValue(attributeId, rowIndex, fieldIndex, Str(text))
    \/ \E fieldIndex \in ShownFields(attributeId, rowIndex, "checkbox"), item \in MetaItems :
            \/ handleUpdateCheckboxValue(attributeId, rowIndex, fieldIndex, item, TRUE)
            \/ handleUpdateCheckboxValue(attributeId, rowIndex, fieldIndex, item, FALSE)

\* C19: duplicateRow of row i in a row list of length n gives a list of
\* length n+1 in which row i+1 is equal to row i, the rows up to i and the
\* rows after i are what they were and in their order, and nothing else in
\* the document changes; the rows are independent: setFieldValue or a
\* checkbox add/remove on one row changes no other row.
C19_DuplicateRowInsertsIndependentCopy ==
    [][\A attributeId \in ShownAttributeIds :
        \A rowIndex \in ShownRows(attributeId) :
            LET rows == RowsOf(groupSelected, attributeId)
                rowsAfter == RowsOf(groupSelected', attributeId)
                n == Len(rows)
            IN  /\ handleDuplicateAttributeRow(attributeId, rowIndex) =>
                    /\ SameButRowsOf(groupSelected, groupSelected', attributeId)
                    /\ Len(rowsAfter) = n + 1
                    /\ rowsAfter[rowIndex + 2] = rows[rowIndex + 1]
                    /\ SubSeq(rowsAfter, 1, rowIndex + 1) = SubSeq(rows, 1, rowIndex + 1)
                    /\ SubSeq(rowsAfter, rowIndex + 3, n + 1) = SubSeq(rows, rowIndex + 2, n)
                /\ EditOfRow(attributeId, rowIndex) =>
                    /\ Len(rowsAfter) = n
                    /\ \A k \in 1..n : k # rowIndex + 1 => rowsAfter[k] = rows[k]]_vars

\* the stored row was duplicated and an entry was then bound in the copy only
C19_Witness ==
    /\ budget = MaxEvents - 2
    /\ lastOp.op = "addCheckboxValue"
    /\ Len(RowsOf(groupSelected, "size-template")) = 2
    /\ RowsOf(groupSelected, "size-template")[1] = SampleRow
    /\ RowsOf(groupSelected, "size-template")[2][1] = SampleRow[1]
    /\ Len(RowsOf(groupSelected, "size-template")[2][2].value.arr) = 1

\* C20: addCheckboxValue with an item whose id is in the field's array
\* already leaves the array (and the document) unchanged and raises an error
\* notice; and no array value of the document holds two entries of one id.
C20_CheckboxIdsStayUnique ==
    /\ [](\A g \in 1..Len(groupSelected) :
            \A a \in 1..Len(groupSelected[g].attributes) :
                \A r \in 1..Len(groupSelected[g].attributes[a].children) :
                    \A f \in 1..Len(groupSelected[g].attributes[a].children[r]) :
                        LET value == groupSelected[g].attributes[a].children[r][f].value
                        IN  IsArrayValue(value) => UniqueIds(value.arr))
    /\ [][\A attributeId \in ShownAttributeIds :
            \A rowIndex \in ShownRows(attributeId) :
                \A fieldIndex \in ShownFields(attributeId, rowIndex, "checkbox") :
                    \A item \in MetaItems :
                        (/\ item.id \in {e.id : e \in ShownEntries(attributeId, rowIndex, fieldIndex)}
                         /\ handleUpdateCheckboxValue(attributeId, rowIndex, fieldIndex, item, TRUE))
                            => /\ groupSelected' = groupSelected
                               /\ hasChanges' = hasChanges
                               /\ toasts' = {"error: Already selected."}]_vars

\* an entry was bound and the same item was then selected again
C20_Witness ==
    /\ lastOp.op = "addCheckboxValue"
    /\ toasts = {"error: Already selected."}
    /\ Len(RowsOf(groupSelected, "size-template")) = 1
    /\ Len(RowsOf(groupSelected, "size-template")[1][2].value.arr) = 1

\* the array of the field "tags" of the first row of the size-template
\* instance in draft
TagsOf(draft) == RowsOf(draft, "size-template")[1][2].value.arr

\* C21: removeCheckboxValue with an item id that is in the field's array
\* removes exactly the entry of that id, the other entries keep their order,
\* and nothing else in the document changes; with an id that is not in the
\* array the document and the dirty flag are unchanged and the not-found
\* notice is raised.
C21_RemoveCheckboxValue ==
    [][\A item \in CheckboxItems :
        handleUpdateCheckboxValue("size-template", 0, 1, item, FALSE) =>
            LET array == TagsOf(groupSelected)
                after == TagsOf(groupSelected')
                k == FindIndexById(array, item.id)
            IN  IF k # 0
                THEN /\ Len(after) = Len(array) - 1
                     /\ SubSeq(after, 1, k - 1) = SubSeq(array, 1, k - 1)
                     /\ SubSeq(after, k, Len(after)) = SubSeq(array, k + 1, Len(array))
                     /\ SameButRowsOf(groupSelected, groupSelected', "size-template")
                     /\ RowsOf(groupSelected', "size-template")[1][1]
                            = RowsOf(groupSelected, "size-template")[1][1]
                     /\ toasts' = {}
                ELSE /\ groupSelected' = groupSelected
                     /\ hasChanges' = hasChanges
                     /\ toasts' = {"error: Item not found to remove."}]_vars

\* the middle one of the three stored entries was removed
C21_Witness ==
    /\ lastOp.op = "removeCheckboxValue"
    /\ toasts = {}
    /\ Len(TagsOf(groupSelected)) = 2
    /\ TagsOf(groupSelected)[1].id = "m1"
    /\ TagsOf(groupSelected)[2].id = "m3"
    /\ hasChanges

-----------------------------------------------------------------------------
(* Properties of the search dialog. *)

\* the i-th call of searchAttributeMeta resumes in this step
SearchResumes(i) ==
    /\ i \in 1..Len(searches)
    /\ searches[i].res = "pending"
    /\ Len(searches') = Len(searches)
    /\ searches'[i].res # "pending"

\* the data of the i-th call's successful answer
DataOf(i) == SearchData(searches[i].searchTerm, searches[i].attributeId)

\* C22: the visible result list is never a concatenation of responses: it is
\* empty or exactly the data of one completed successful response, and every
\* completed response replaces what was displayed (its data on success, the
\* empty list otherwise).
C22_SearchListIsOneResponse ==
    /\ [](\/ search = <<>>
          \/ \E i \in 1..Len(searches) :
                searches[i].res = "success" /\ search = DataOf(i))
    /\ [][\A i \in 1..Len(searches) :
            SearchResumes(i)
                => search' = IF searches'[i].res = "success" THEN DataOf(i)
                             ELSE <<>>]_vars

\* two answers have arrived for one opening of the dialog, and the list
\* shown is the second to arrive alone, in place of the first
C22_Witness ==
    /\ Len(searches) = 2
    /\ searches[1].res = "success" /\ searches[2].res = "success"
    /\ lastOp.op = "searchResume" /\ lastOp.call = 1
    /\ DataOf(1) # DataOf(2) /\ DataOf(2) # <<>>
    /\ search = DataOf(1)
    /\ open[1] = "search"

\* every call issued so far has resumed
AllResumed == \A i \in 1..Len(searches) : searches[i].res # "pending"

-----------------------------------------------------------------------------
(* Properties of saves that overlap edits and each other. *)

\* C24: the document stays editable while a save is in flight and the edits
\* made meanwhile are not lost: when the save succeeds the current snapshot
\* is left as it is, the baseline becomes the snapshot that was sent, and
\* the document is Dirty exactly when the current snapshot differs from it.
C24_EditsDuringSaveAreKept ==
    [][(saves' # saves /\ lastOp'.op = "saveResume" /\ lastOp'.outcome = "success")
        => /\ groupSelected' = groupSelected
           /\ savedGroupData' = lastOp'.call.groupSelected
           /\ hasChanges' = (groupSelected' # lastOp'.call.groupSelected)]_vars

\* a save has succeeded after the document was edited while it was in
\* flight: the edit is still there and the document is Dirty
C24_Witness ==
    /\ SaveResumed({"success"})
    /\ saves = <<>>
    /\ groupSelected # lastOp.call.groupSelected
    /\ savedGroupData = lastOp.call.groupSelected
    /\ hasChanges

\* C25: whenever no save is in flight and the document is Clean after a
\* successful save (updateRecord has written the host entity), the value
\* last written by updateRecord is the serialization of the current
\* snapshot.
C25_CleanMeansPersisted ==
    (saves = <<>> /\ ~hasChanges /\ db # data.data)
        => db = JSON_stringify(groupSelected)

-----------------------------------------------------------------------------
(* Properties of the active group. *)

\* C26: once the editor has loaded, after every sequence of createGroup,
\* deleteGroup, tab selection and load, activeGroupId is the id of a group
\* of the document when the document has groups, and null when it has none.
C26_ActiveGroupExists ==
    mounted =>
        IF Len(groupSelected) > 0 THEN activeGroupId \in GroupIds(groupSelected)
        ELSE activeGroupId = NULL

\* a confirmed deleteGroup of a group that is not the active one
DeleteOtherGroup(groupId) ==
    /\ groupId # activeGroupId
    /\ activeGroupId \in GroupIds(groupSelected)
    /\ handleDeleteGroup(groupId, TRUE)

\* C27: a confirmed deleteGroup of a group that is not the active group
\* removes only that group, keeps the other groups unchanged and in order,
\* and leaves the active group unchanged.
C27_DeleteOtherKeepsActive ==
    [][\A groupId \in GroupIds(groupSelected) :
        DeleteOtherGroup(groupId)
            => /\ groupSelected' = FilterOutId(groupSelected, groupId)
               /\ activeGroupId' = activeGroupId]_vars

-----------------------------------------------------------------------------
(* Properties of the two snapshots. *)

\* the names the operations of the edit engine leave in lastOp
EditEngineNames ==
    {"handleAddGroup", "renameGroup", "handleDeleteGroup",
     "handleSelectAttributeForGroup", "handleAddAttributeRow",
     "handleDuplicateAttributeRow", "handleDeleteAttributeRow",
     "handleDeleteAttributeInstance", "handleUpdateFieldValue",
     "handleUpdateCheckboxValue", "addCheckboxValue", "removeCheckboxValue",
     "handleDeleteCheckboxSingleValue"}

\* C28: after the initial load the current snapshot changes only through
\* operations of the edit engine and the baseline only through a successful
\* save; the parse runs once per load, so a later refresh of the host row's
\* raw data while the editor is open discards no unsaved edit.
C28_OnlyEditsAndSavesChangeSnapshots ==
    [][mounted =>
        /\ groupSelected' # groupSelected => lastOp'.op \in EditEngineNames
        /\ savedGroupData' # savedGroupData
            => (lastOp'.op = "saveResume" /\ lastOp'.outcome = "success")]_vars

\* C29: no operation of the edit engine changes the baseline, whether it is
\* confirmed, declined or rejected, also after a failed save: savedGroupData
\* stays the last loaded or last successfully saved snapshot.
C29_EditsKeepBaseline ==
    [][EditEngineOp => savedGroupData' = savedGroupData]_vars

\* the events were spent and the last one was an edit: the document is
\* Dirty against the baseline that was loaded, and nothing was written
C29_Witness ==
    /\ lastOp.op \in EditEngineNames
    /\ toasts = {}
    /\ groupSelected # savedGroupData
    /\ savedGroupData # <<>>
    /\ db = data.data
    /\ budget = 0
    /\ saves = <<>>

\* the values handleUpdateFieldValue is called with: the text of an input,
\* or the {id, title, value} of a search result
FieldValues ==
    {Str(text) : text \in TextValues}
        \cup {Obj([id |-> r.id, title |-> r.key, value |-> r.value]) :
                r \in {SearchRecords("color")[i] : i \in 1..Len(SearchRecords("color"))}}

\* C30: setFieldValue on an existing field of the active group replaces the
\* field's value wholesale with the given value (for a select field the
\* {id, title, value} of the result selected) and changes nothing else: not
\* the field's id and title, nor any other field, row, instance or group,
\* nor the active group; when the row or field does not exist the document
\* is unchanged.
C30_SetFieldValueReplacesOnlyTheValue ==
    [][\A attributeId \in FieldAttributeIds, rowIndex \in FieldRowIndexes :
        \A fieldIndex \in FieldIndexes, newValue \in FieldValues :
            UpdateFieldValue(attributeId, rowIndex, fieldIndex, newValue)
                => LET at == FindAttribute(groupSelected, activeGroupId, attributeId) IN
                    /\ activeGroupId' = activeGroupId
                    /\ IF /\ at.a # 0
                          /\ rowIndex < Len(RowsOf(groupSelected, attributeId))
                          /\ fieldIndex < Len(RowsOf(groupSelected, attributeId)[rowIndex + 1])
                       THEN /\ RowsOf(groupSelected', attributeId)[rowIndex + 1][fieldIndex + 1].value
                                = newValue
                            /\ groupSelected' =
                                [groupSelected EXCEPT
                                    ![at.g].attributes[at.a].children[rowIndex + 1][fieldIndex + 1].value
                                        = newValue]
                       ELSE groupSelected' = groupSelected]_vars

\* a search result was selected for the select field "color": the field
\* holds the result's {id, title, value} and the text field is as loaded
C30_Witness ==
    /\ lastOp.op = "handleUpdateFieldValue"
    /\ open[1] = ""
    /\ Len(groupSelected) = 1
    /\ RowsOf(groupSelected, "size-template")[1][3] =
            [id |-> "color", title |-> "Color",
             value |-> Obj([id |-> "m1", title |-> "red", value |-> "#ff0000"])]
    /\ RowsOf(groupSelected, "size-template")[1][1].value = Str("XL")
    /\ hasChanges

-----------------------------------------------------------------------------
(* Properties of the delete operations. *)

\* C31: a confirmed deleteRow of row i of a row list of length n gives a
\* list of length n-1 that lacks exactly the former row i, the other rows in
\* their order; the instance is otherwise unchanged, and so are the other
\* instances, the other groups and the active group.
C31_DeleteRowRemovesThatRow ==
    [][\A attributeId \in ShownAttributeIds :
        \A rowIndex \in ShownRows(attributeId) :
            handleDeleteAttributeRow(attributeId, rowIndex, TRUE)
                => LET rows == RowsOf(groupSelected, attributeId)
                       left == RowsOf(groupSelected', attributeId)
                   IN  /\ Len(left) = Len(rows) - 1
                       /\ \A k \in 1..rowIndex : left[k] = rows[k]
                       /\ \A k \in (rowIndex + 1)..Len(left) : left[k] = rows[k + 1]
                       /\ SameButRowsOf(groupSelected, groupSelected', attributeId)
                       /\ activeGroupId' = activeGroupId]_vars

\* a row was added below the stored row and the stored row was deleted: the
\* added row is the one left
C31_Witness ==
    /\ lastOp = [op |-> "handleDeleteAttributeRow", confirmed |-> TRUE]
    /\ budget = MaxEvents - 2
    /\ RowsOf(groupSelected, "size-template") = <<NewRow(atts[1])>>
    /\ RowsOf(savedGroupData, "size-template") = <<SampleRow>>

\* the names the delete operations leave in lastOp
DeleteNames ==
    {"handleDeleteGroup", "handleDeleteAttributeInstance",
     "handleDeleteAttributeRow", "handleDeleteCheckboxSingleValue"}

\* C32: a delete operation (deleteGroup, deleteAttributeInstance, deleteRow,
\* the removal of one checkbox entry) whose confirmation is declined leaves
\* the document, the baseline, the active group and the Dirty status as
\* they were.
C32_DeclinedDeleteChangesNothing ==
    [][(budget' # budget /\ lastOp'.op \in DeleteNames /\ ~lastOp'.confirmed)
        => UNCHANGED <<groupSelected, savedGroupData, activeGroupId, hasChanges>>]_vars

\* the removal of a row was declined on a document that has unsaved edits
C32_Witness ==
    /\ lastOp = [op |-> "handleDeleteAttributeRow", confirmed |-> FALSE]
    /\ hasChanges
    /\ Len(RowsOf(groupSelected, "size-template")) = 2

-----------------------------------------------------------------------------
(* More properties of the search dialog. *)

\* C33: a search that fails (the call throws or answers non-success) leaves
\* the current snapshot, the baseline and the Dirty status unchanged, sets
\* the visible result list to empty, clears the loading flag and raises an
\* error notice.
C33_FailedSearchKeepsDocument ==
    [][\A i \in 1..Len(searches) :
        (SearchResumes(i) /\ searches'[i].res # "success")
            => /\ UNCHANGED <<groupSelected, savedGroupData, hasChanges>>
               /\ search' = <<>>
               /\ loading' = FALSE
               /\ toasts' \in {{"error: Failed to search attribute values."},
                               {"error: An error occurred during search."}}]_vars

\* a result was bound, the dialog was opened again and its search threw:
\* the document is still Dirty, the list is empty and the notice is raised
C33_Witness ==
    /\ lastOp.op = "searchResume" /\ lastOp.outcome = "throw"
    /\ hasChanges
    /\ open[1] = "search"
    /\ search = <<>> /\ ~loading
    /\ toasts = {"error: An error occurred during search."}

\* C34: every result list that is displayed and selectable while the dialog
\* is open for a field was returned by a search issued for that field's
\* definition id; the late answer of a search issued for another field is
\* never shown for it.
C34_ShownResultsAreOfTheField ==
    (open[1] = "search" /\ ShownResults # {})
        => \E i \in 1..Len(searches) :
                /\ searches[i].attributeId = open[2].fieldId
                /\ searches[i].res = "success"
                /\ search = DataOf(i)

\* C35: while a call of searchAttributeMeta is in flight the loading flag is
\* true, so that the dialog shows neither a result list nor "No results
\* found." before the call issued last has resumed.
C35_LoadingWhileInFlight ==
    (\E i \in 1..Len(searches) : searches[i].res = "pending") => loading

-----------------------------------------------------------------------------
(* Properties of the state after the load. *)

\* C36: right after the initial load (a current-shape document, a migrated
\* legacy array, an empty input or a parse failure) the current snapshot and
\* the baseline are the same value, the document is Clean and a save request
\* makes no call of updateRecord; the first group of the loaded document is
\* active if it has a group, otherwise no group is active.
C36_LoadedDocumentIsClean ==
    mounted =>
        /\ groupSelected = savedGroupData
        /\ ~hasChanges
        /\ saves = <<>> /\ db = data.data
        /\ IF Len(groupSelected) > 0 THEN activeGroupId = groupSelected[1].id
           ELSE activeGroupId = NULL

\* a document of two groups was loaded and Save Changes was requested: the
\* first group is active and nothing was sent
C36_Witness ==
    /\ lastOp.op = "saveAttributeMeta"
    /\ Len(groupSelected) = 2
    /\ activeGroupId = groupSelected[1].id
    /\ groupSelected[2].attributes # <<>>
    /\ saves = <<>>
    /\ toasts = {}

====
